---- MODULE Spec2Model ----
(***************************************************************************)
(* Model of the task orchestration core of GraphFusionAI:                  *)
(*   graphfusionai/task/task.py            Task and its lifecycle          *)
(*   graphfusionai/task/task_queue.py      TaskQueue                       *)
(*   graphfusionai/task/task_scheduler.py  TaskScheduler                   *)
(*   graphfusionai/task/task_executor.py   TaskExecutor                    *)
(*   graphfusionai/task/task_manager.py    TaskManager                     *)
(***************************************************************************)
EXTENDS Bags, FiniteSets, Integers, Sequences, TLC

(***************************************************************************)
(* Bounds of the model.                                                    *)
(***************************************************************************)
MaxTasks == 3

MaxSteps == 3

MaxReports == 2

MaxRetries == 4

MaxDelay == 2

MaxCalls == 5

(***************************************************************************)
(* Values.                                                                 *)
(***************************************************************************)
PENDING == "pending"

IN_PROGRESS == "in_progress"

COMPLETED == "completed"

FAILED == "failed"

BLOCKED == "blocked"

SKIPPED == "skipped"

None == "None"

\* Task ids handed to add_task by the caller (uuid4 strings in the code,
\* distinct per constructed Task).
TaskIds == 1 .. MaxTasks

\* The id carried by the alternate_task dictionary of task id.
AltId(id) == id + 100

\* The task definitions a caller registers: priority, required_skills and
\* failure_strategy of each (the default strategy is skip_dependent, the
\* default required_skills is the empty list).
TaskProfiles ==
    {[priority |-> 5, required_skills |-> {"s1"}, failure_strategy |-> "skip_dependent"],
     [priority |-> 10, required_skills |-> {"s1"}, failure_strategy |-> "retry"],
     [priority |-> 5, required_skills |-> {"s1"}, failure_strategy |-> "alternate"],
     [priority |-> 10, required_skills |-> {}, failure_strategy |-> "skip_dependent"]}

\* Workers offered to the scheduler: id |-> the fields the scheduler reads.
AgentIds == {"a1", "a2", "a3"}

AgentSkills ==
    [a \in AgentIds |->
        CASE a = "a1" -> {"s1", "s2"}
          [] a = "a2" -> {"s1"}
          [] OTHER    -> {}]

\* A dict with no key.
EmptyDict == [k \in {} |-> 0]

\* getattr(agent, "resources", {}): a3 has no resources attribute.
AgentResources ==
    [a \in AgentIds |->
        CASE a = "a1" -> [k \in {"cpu"} |-> 2]
          [] a = "a2" -> [k \in {"cpu"} |-> 1]
          [] OTHER    -> EmptyDict]

\* Worker pools (dict agent_id -> agent, in dict iteration order).
Pools == {<<"a3">>, <<"a2">>, <<"a2", "a1">>}

VARIABLES
    tasks,                \* TaskManager.tasks: id -> Task fields
    task_order,           \* insertion order of TaskManager.tasks
    task_graph,           \* TaskManager.task_graph: [nodes, edges]
    queue,                \* TaskManager.queue: [heap, tasks]
    assignments,          \* TaskScheduler.assignments
    performance_history,  \* TaskScheduler.performance_history
    results,              \* the results dict of execute_tasks
    metrics,              \* TaskManager.metrics
    execution_history,    \* TaskManager.execution_history
    pc,                   \* position in execute_tasks
    ready_tasks,          \* the tick's ready list
    tick_i,               \* index of the next task of the for loop
    agents,               \* the agents argument of execute_tasks
    max_parallel,         \* the max_parallel argument of execute_tasks
    sched,                \* the last call made on a TaskScheduler and its outcome
    exec,                 \* a call of TaskExecutor.execute_task: input and result
    llm,                  \* a call of TaskExecutor._handle_llm_step in progress
    task_life,            \* a Task under calls of its lifecycle methods
    task_queue,           \* a TaskQueue under calls of add and get
    legacy,               \* a run of the task_manager package's TaskExecutor
    team_queue            \* a team TaskQueue under a call of next

vars == <<tasks, task_order, task_graph, queue, assignments,
          performance_history, results, metrics, execution_history, pc,
          ready_tasks, tick_i, agents, max_parallel, sched, exec, llm,
          task_life, task_queue, legacy, team_queue>>

\* The variables of the TaskManager run, the scheduler's tables excluded.
runVars == <<tasks, task_order, task_graph, queue, results, metrics,
             execution_history, pc, ready_tasks, tick_i, agents, max_parallel>>

\* The variables that hold single calls on the other classes.
callVars == <<sched, exec, llm, task_life, task_queue, legacy, team_queue>>

Range(s) == {s[i] : i \in 1 .. Len(s)}

(***************************************************************************)
(* Task (task/task.py).                                                    *)
(***************************************************************************)
NewTask(id, deps, prio, skills, strategy, alt) ==
    [id |-> id,
     dependencies |-> deps,
     priority |-> prio,
     required_skills |-> skills,
     resources |-> EmptyDict,
     failure_strategy |-> strategy,
     alternate_task |-> alt,
     status |-> PENDING,
     current_step |-> 0,
     results |-> <<>>,
     error |-> None,
     attempts |-> 0]

start(t) == [t EXCEPT !.status = IN_PROGRESS, !.attempts = @ + 1]

complete(t, result) ==
    [t EXCEPT !.status = COMPLETED, !.results = Append(@, result)]

fail(t, error) == [t EXCEPT !.status = FAILED, !.error = error]

\* skip that records the task as failed.
skip_mut(t) == [t EXCEPT !.status = FAILED]

skip(t) == [t EXCEPT !.status = SKIPPED]

block(t) == [t EXCEPT !.status = BLOCKED]

\* reset that keeps the error of the failed attempt.
reset_mut(t) == [t EXCEPT !.status = PENDING, !.current_step = 0]

reset(t) == [t EXCEPT !.status = PENDING, !.current_step = 0, !.error = None]

is_ready(t) == Len(t.dependencies) = 0

\* list.remove: drops the first occurrence only.
RECURSIVE ListRemove(_, _)
ListRemove(s, x) ==
    IF s = <<>> THEN <<>>
    ELSE IF Head(s) = x THEN Tail(s)
    ELSE <<Head(s)>> \o ListRemove(Tail(s), x)

remove_dependency(t, task_id) ==
    IF task_id \in Range(t.dependencies)
    THEN [t EXCEPT !.dependencies = ListRemove(@, task_id)]
    ELSE t

(***************************************************************************)
(* TaskQueue (task/task_queue.py).                                         *)
(***************************************************************************)
QueueInit == [heap |-> EmptyBag, tasks |-> {}, total_enqueued |-> 0]

\* TaskQueue.add
QueueAdd(q, t) ==
    [heap |-> q.heap (+) SetToBag({<<0 - t.priority, t.id>>}),
     tasks |-> q.tasks \cup {t.id},
     total_enqueued |-> q.total_enqueued + 1]

(***************************************************************************)
(* TaskScheduler (task/task_scheduler.py).  Scores are the code's floats   *)
(* multiplied by ScoreScale * 10, which makes every term an integer.       *)
(***************************************************************************)
ScoreScale == 2520

RECURSIVE SeqSum(_)
SeqSum(s) == IF s = <<>> THEN 0 ELSE Head(s) + SeqSum(Tail(s))

_is_agent_busy_mut(asg, a) == FALSE

_is_agent_busy(asg, a) == Len(asg[a]) > 0

_get_agent_performance(ph, a) ==
    IF ph[a] = <<>> THEN ScoreScale \div 2
    ELSE (ScoreScale * SeqSum(ph[a])) \div Len(ph[a])

_check_resource_availability(a, required_resources) ==
    IF DOMAIN required_resources = {} THEN ScoreScale
    ELSE LET available == AgentResources[a]
             matched == {r \in DOMAIN required_resources :
                            /\ r \in DOMAIN available
                            /\ available[r] >= required_resources[r]}
         IN  IF DOMAIN available = {} THEN 0
             ELSE (ScoreScale * Cardinality(matched))
                      \div Cardinality(DOMAIN required_resources)

\* [exc |-> the call raised ZeroDivisionError, score |-> the value returned]
\* _calculate_agent_score without the early return for a missing skill.
_calculate_agent_score_mut(asg, ph, a, required_skills, required_resources) ==
    IF Cardinality(required_skills) = 0
    THEN [exc |-> TRUE, score |-> 0]
    ELSE [exc |-> FALSE,
          score |->
              (4 * ScoreScale * Cardinality(required_skills \cap AgentSkills[a]))
                    \div Cardinality(required_skills)
              + 3 * _get_agent_performance(ph, a)
              + 2 * (ScoreScale \div 5) * (5 - Len(asg[a]))
              + _check_resource_availability(a, required_resources)]

_calculate_agent_score(asg, ph, a, required_skills, required_resources) ==
    IF ~ (required_skills \subseteq AgentSkills[a])
    THEN [exc |-> FALSE, score |-> 0]
    ELSE IF Cardinality(required_skills) = 0
    THEN [exc |-> TRUE, score |-> 0]
    ELSE [exc |-> FALSE,
          score |->
              (4 * ScoreScale * Cardinality(required_skills \cap AgentSkills[a]))
                    \div Cardinality(required_skills)
              + 3 * _get_agent_performance(ph, a)
              + 2 * (ScoreScale \div 5) * (5 - Len(asg[a]))
              + _check_resource_availability(a, required_resources)]

\* The loop of assign_agent over agents.values():
\* [exc, qualified |-> sequence of <<score, agent>>].
RECURSIVE qualified_agents(_, _, _, _)
qualified_agents(asg, ph, task, pool) ==
    IF pool = <<>> THEN [exc |-> FALSE, qualified |-> <<>>]
    ELSE LET a == Head(pool)
             rest == qualified_agents(asg, ph, task, Tail(pool))
         IN  IF _is_agent_busy(asg, a) THEN rest
             ELSE LET sc == _calculate_agent_score(asg, ph, a,
                                task.required_skills, task.resources)
                  IN  IF sc.exc THEN [exc |-> TRUE, qualified |-> <<>>]
                      ELSE IF rest.exc THEN rest
                      ELSE IF sc.score > 0
                      THEN [exc |-> FALSE,
                            qualified |-> <<(<<sc.score, a>>)>> \o rest.qualified]
                      ELSE rest

\* max(qualified_agents, key=lambda x: x[0]): the first entry of maximal score.
RECURSIVE MaxByScore(_)
MaxByScore(q) ==
    IF Len(q) = 1 THEN q[1]
    ELSE LET m == MaxByScore(Tail(q))
         IN  IF m[1] > q[1][1] THEN m ELSE q[1]

\* _assign_task that records nothing.
_assign_task_mut(asg, agent_id, task_id) == asg

_assign_task(asg, agent_id, task_id) ==
    [asg EXCEPT ![agent_id] = Append(@, task_id)]

\* [exc, agent |-> the agent returned or None, assignments |-> the new table]
assign_agent(asg, ph, task, pool) ==
    LET q == qualified_agents(asg, ph, task, pool)
    IN  IF q.exc THEN [exc |-> TRUE, agent |-> None, assignments |-> asg]
        ELSE IF q.qualified # <<>>
        THEN LET best_agent == MaxByScore(q.qualified)[2]
             IN  [exc |-> FALSE, agent |-> best_agent,
                  assignments |-> _assign_task(asg, best_agent, task.id)]
        ELSE [exc |-> FALSE, agent |-> None, assignments |-> asg]

\* list[-10:]
LastTen(s) == IF Len(s) > 10 THEN SubSeq(s, Len(s) - 9, Len(s)) ELSE s

\* TaskScheduler.complete_task: [assignments, performance_history].
complete_task(asg, ph, agent_id, task_id, success) ==
    [assignments |-> [asg EXCEPT ![agent_id] = ListRemove(@, task_id)],
     performance_history |->
         [ph EXCEPT ![agent_id] = LastTen(Append(@, IF success THEN 1 ELSE 0))]]

(***************************************************************************)
(* TaskExecutor.execute_task (task/task_executor.py).  A step is           *)
(* [type, fail_fast]; its outcome is TRUE when the handler returns and     *)
(* FALSE when the handler raises.                                          *)
(***************************************************************************)
_execute_step(step, outcome) ==
    [step_type |-> step.type,
     success |-> outcome,
     error |-> IF outcome THEN None ELSE "handler error"]

\* The for loop of execute_task from step i on; result is the dict built so
\* far.
RECURSIVE execute_steps(_, _, _, _)
execute_steps(steps, outcomes, i, result) ==
    IF i > Len(steps)
    THEN [result EXCEPT !.status = COMPLETED]
    ELSE LET step_result == _execute_step(steps[i], outcomes[i])
             r == [result EXCEPT !.output = Append(@, step_result),
                                 !.steps_completed = @ + 1]
         IN  IF ~ step_result.success
             THEN [r EXCEPT !.status = FAILED, !.error = "Step failed"]
             ELSE execute_steps(steps, outcomes, i + 1, r)

execute_task(steps, outcomes) ==
    execute_steps(steps, outcomes, 1,
                  [status |-> IN_PROGRESS, steps_completed |-> 0,
                   output |-> <<>>, error |-> None])

\* The steps of the tasks registered with the TaskManager.
DefaultSteps == <<[type |-> "default", fail_fast |-> FALSE]>>

(***************************************************************************)
(* TaskManager (task/task_manager.py).                                     *)
(***************************************************************************)
\* _check_dependencies_met that takes any finished dependency for a met one.
_check_dependencies_met_finished(tsk, t) ==
    \A i \in 1 .. Len(t.dependencies) :
        /\ t.dependencies[i] \in DOMAIN tsk
        /\ tsk[t.dependencies[i]].status \in {COMPLETED, FAILED, SKIPPED}

\* _check_dependencies_met without the test for an unregistered dependency.
_check_dependencies_met_mut(tsk, t) ==
    \A i \in 1 .. Len(t.dependencies) :
        t.dependencies[i] \in DOMAIN tsk
            => tsk[t.dependencies[i]].status = COMPLETED

_check_dependencies_met(tsk, t) ==
    \A i \in 1 .. Len(t.dependencies) :
        /\ t.dependencies[i] \in DOMAIN tsk
        /\ tsk[t.dependencies[i]].status = COMPLETED

\* limit = None of get_ready_tasks.
NoLimit == 0 - 1

\* The loop of get_ready_tasks over self.tasks.values(), from position i on,
\* with ready the list built so far; limit is NoLimit or an integer >= 0.
RECURSIVE ready_loop(_, _, _, _, _)
ready_loop(tsk, order, limit, i, ready) ==
    IF i > Len(order) THEN ready
    ELSE LET t == tsk[order[i]]
         IN  IF t.status = PENDING /\ _check_dependencies_met(tsk, t)
             THEN LET r == Append(ready, t.id)
                  IN  IF limit # NoLimit /\ limit # 0 /\ Len(r) >= limit
                      THEN r
                      ELSE ready_loop(tsk, order, limit, i + 1, r)
             ELSE ready_loop(tsk, order, limit, i + 1, ready)

get_ready_tasks(tsk, order, limit) == ready_loop(tsk, order, limit, 1, <<>>)

\* nx.DiGraph.add_node / add_edge: edges are kept in insertion order.
GraphAddNode(g, n) == [g EXCEPT !.nodes = @ \cup {n}]

GraphAddEdge(g, u, v) ==
    [nodes |-> g.nodes \cup {u, v},
     edges |-> IF <<u, v>> \in Range(g.edges) THEN g.edges
               ELSE Append(g.edges, <<u, v>>)]

RECURSIVE GraphAddEdges(_, _, _)
GraphAddEdges(g, deps, v) ==
    IF deps = <<>> THEN g
    ELSE GraphAddEdges(GraphAddEdge(g, Head(deps), v), Tail(deps), v)

\* self.task_graph.successors(n), in adjacency order.
RECURSIVE successors(_, _)
successors(edges, n) ==
    IF edges = <<>> THEN <<>>
    ELSE IF Head(edges)[1] = n
    THEN <<Head(edges)[2]>> \o successors(Tail(edges), n)
    ELSE successors(Tail(edges), n)

\* nx.descendants(G, n): the nodes reachable from n, n itself excluded.
RECURSIVE Reach(_, _)
Reach(edges, seen) ==
    LET next == seen \cup {e[2] : e \in {f \in Range(edges) : f[1] \in seen}}
    IN  IF next = seen THEN seen ELSE Reach(edges, next)

get_dependent_tasks(g, n) ==
    IF n \notin g.nodes THEN {}
    ELSE Reach(g.edges, {n}) \ {n}

\* The manager's state next to the scheduler's: the fields add_task,
\* _handle_completion and _handle_failure read and write.
ManagerState(tsk, order, g, q, res, met) ==
    [tasks |-> tsk, task_order |-> order, task_graph |-> g, queue |-> q,
     results |-> res, metrics |-> met]

add_task(m, task) ==
    [m EXCEPT
        !.tasks = [id \in DOMAIN m.tasks \cup {task.id} |->
                      IF id = task.id THEN task ELSE m.tasks[id]],
        !.task_order = IF task.id \in DOMAIN m.tasks THEN @
                       ELSE Append(@, task.id),
        !.task_graph = GraphAddEdges(GraphAddNode(@, task.id),
                                     task.dependencies, task.id),
        !.queue = IF is_ready(task) THEN QueueAdd(@, task) ELSE @]

\* The loop of _handle_completion over the successors of task_id.
RECURSIVE update_dependents(_, _, _)
update_dependents(m, succ, task_id) ==
    IF succ = <<>> THEN m
    ELSE LET s == Head(succ)
             t == remove_dependency(m.tasks[s], task_id)
             m1 == [m EXCEPT !.tasks[s] = t,
                             !.queue = IF is_ready(t) THEN QueueAdd(@, t) ELSE @]
         IN  update_dependents(m1, Tail(succ), task_id)

\* The loop of _handle_failure (skip_dependent) over the successors.
RECURSIVE skip_dependents(_, _)
skip_dependents(m, succ) ==
    IF succ = <<>> THEN m
    ELSE skip_dependents(
             [m EXCEPT !.tasks[Head(succ)] = skip(@),
                       !.results.skipped = Append(@, Head(succ))],
             Tail(succ))

\* No alternate_task.
NoAlt == 0

\* Task.from_dict(task.alternate_task): the alternate task of task id.
AltTask(alt_id) == NewTask(alt_id, <<>>, 5, {"s1"}, "skip_dependent", NoAlt)

_handle_completion(m, task_id, result) ==
    LET m1 == [m EXCEPT !.tasks[task_id] = complete(@, result),
                        !.results.completed = Append(@, task_id),
                        !.metrics.tasks_completed = @ + 1]
    IN  update_dependents(m1, successors(m1.task_graph.edges, task_id), task_id)

\* _handle_failure that resets the failed task whatever its strategy.
_handle_failure_mut(m, task_id, result) ==
    LET m1 == [m EXCEPT !.tasks[task_id] = fail(@, result.error),
                        !.results.failed = Append(@, task_id),
                        !.metrics.tasks_failed = @ + 1]
        task == m1.tasks[task_id]
    IN  [m1 EXCEPT !.tasks[task_id] = reset(@),
                   !.queue = QueueAdd(@, reset(task))]

_handle_failure(m, task_id, result) ==
    LET m1 == [m EXCEPT !.tasks[task_id] = fail(@, result.error),
                        !.results.failed = Append(@, task_id),
                        !.metrics.tasks_failed = @ + 1]
        task == m1.tasks[task_id]
    IN  IF task.failure_strategy = "retry"
        THEN [m1 EXCEPT !.tasks[task_id] = reset(@),
                        !.queue = QueueAdd(@, reset(task))]
        ELSE IF task.failure_strategy = "skip_dependent"
        THEN skip_dependents(m1, successors(m1.task_graph.edges, task_id))
        ELSE IF task.failure_strategy = "alternate"
        THEN IF task.alternate_task # NoAlt
             THEN add_task(m1, AltTask(task.alternate_task))
             ELSE m1
        ELSE m1

(***************************************************************************)
(* Specification Spec: add_task calls on a fresh TaskManager, then one     *)
(* call of execute_tasks.                                                  *)
(***************************************************************************)
Manager == ManagerState(tasks, task_order, task_graph, queue, results, metrics)

SetManager(m) ==
    /\ tasks' = m.tasks
    /\ task_order' = m.task_order
    /\ task_graph' = m.task_graph
    /\ queue' = m.queue
    /\ results' = m.results
    /\ metrics' = m.metrics

\* The dependency lists a caller passes for task id: none, one dependency
\* (on a task registered before it, on itself or on the task registered
\* next), or the two tasks registered before it.
DepLists(id) ==
    {<<>>} \cup {<<d>> : d \in 1 .. (id + 1)}
           \cup (IF id >= 3 THEN {<<id - 2, id - 1>>} ELSE {})

MaxParallels == {1, 10}

NoCall == [op |-> "none"]

\* A fresh TaskManager (with its TaskScheduler), before execute_tasks.
ManagerInit ==
    /\ tasks = [id \in {} |-> 0]
    /\ task_order = <<>>
    /\ task_graph = [nodes |-> {}, edges |-> <<>>]
    /\ queue = QueueInit
    /\ assignments = [a \in AgentIds |-> <<>>]
    /\ performance_history = [a \in AgentIds |-> <<>>]
    /\ results = [completed |-> <<>>, failed |-> <<>>, skipped |-> <<>>]
    /\ metrics = [tasks_completed |-> 0, tasks_failed |-> 0,
                  success_rate |-> <<0, 1>>, parallel_tasks |-> 0]
    /\ execution_history = <<>>
    /\ pc = "idle"
    /\ ready_tasks = <<>>
    /\ tick_i = 1
    /\ agents = <<>>
    /\ max_parallel = 10

Init ==
    /\ ManagerInit
    /\ sched = NoCall
    /\ exec = NoCall
    /\ llm = NoCall
    /\ task_life = NoCall
    /\ task_queue = NoCall
    /\ legacy = NoCall
    /\ team_queue = NoCall

\* TaskManager.add_task, called by the owner before the run.
AddTask ==
    /\ pc = "idle"
    /\ Len(task_order) < MaxTasks
    /\ \E deps \in DepLists(Len(task_order) + 1), p \in TaskProfiles :
          LET id == Len(task_order) + 1
              alt == IF p.failure_strategy = "alternate" THEN AltId(id) ELSE NoAlt
          IN  SetManager(add_task(Manager,
                  NewTask(id, deps, p.priority, p.required_skills,
                          p.failure_strategy, alt)))
    /\ UNCHANGED <<assignments, performance_history, execution_history, pc,
                   ready_tasks, tick_i, agents, max_parallel, callVars>>

\* execute_tasks is entered: lines 87-92.
StartRun ==
    /\ pc = "idle"
    /\ \E pool \in Pools, mp \in MaxParallels :
          /\ agents' = pool
          /\ max_parallel' = mp
    /\ results' = [completed |-> <<>>, failed |-> <<>>, skipped |-> <<>>]
    /\ pc' = "loop"
    /\ UNCHANGED <<tasks, task_order, task_graph, queue, assignments,
                   performance_history, metrics, execution_history,
                   ready_tasks, tick_i, callVars>>

\* The head of the while loop with a non-empty ready list: lines 94-104.
TickBegin ==
    /\ pc = "loop"
    /\ LET ready == get_ready_tasks(tasks, task_order, max_parallel)
       IN  /\ ready # <<>>
           /\ ready_tasks' = ready
           /\ metrics' = [metrics EXCEPT !.parallel_tasks =
                              IF Len(ready) > @ THEN Len(ready) ELSE @]
    /\ tick_i' = 1
    /\ pc' = "tick"
    /\ UNCHANGED <<tasks, task_order, task_graph, queue, assignments,
                   performance_history, results, execution_history, agents,
                   max_parallel, callVars>>

\* TaskManager._update_metrics: success_rate is kept as the fraction
\* <<numerator, denominator>>; the average of the wall-clock completion
\* times is left out, as are the time stamps of the tasks.
_update_metrics(met) ==
    LET total_tasks == met.tasks_completed + met.tasks_failed
    IN  IF total_tasks > 0
        THEN [met EXCEPT !.success_rate = <<met.tasks_completed, total_tasks>>]
        ELSE met

\* The head of the while loop with an empty ready list: break, lines 137-141.
Return ==
    /\ pc = "loop"
    /\ get_ready_tasks(tasks, task_order, max_parallel) = <<>>
    /\ ready_tasks' = <<>>
    /\ metrics' = _update_metrics(metrics)
    /\ pc' = "returned"
    /\ UNCHANGED <<tasks, task_order, task_graph, queue, assignments,
                   performance_history, results, execution_history,
                   tick_i, agents, max_parallel, callVars>>

\* The ready list re-evaluated at every dispatch instead of once per tick.
CurrentTask_mut ==
    LET live == get_ready_tasks(tasks, task_order, NoLimit)
    IN  IF live # <<>> THEN tasks[live[1]] ELSE tasks[ready_tasks[tick_i]]

\* The task the for loop is at.
CurrentTask == tasks[ready_tasks[tick_i]]

Advance ==
    /\ tick_i' = tick_i + 1
    /\ pc' = IF tick_i + 1 > Len(ready_tasks) THEN "loop" ELSE "tick"

\* One iteration of the for loop in which assign_agent returns None:
\* lines 109-113.
DispatchSkip ==
    /\ pc = "tick"
    /\ LET r == assign_agent(assignments, performance_history, CurrentTask, agents)
       IN  /\ ~ r.exc
           /\ r.agent = None
    /\ tasks' = [tasks EXCEPT ![CurrentTask.id] = skip(@)]
    /\ results' = [results EXCEPT !.skipped = Append(@, CurrentTask.id)]
    /\ Advance
    /\ UNCHANGED <<task_order, task_graph, queue, assignments,
                   performance_history, metrics, execution_history,
                   ready_tasks, agents, max_parallel, callVars>>

\* One iteration of the for loop in which assign_agent raises: the
\* exception leaves execute_tasks.
DispatchRaise ==
    /\ pc = "tick"
    /\ assign_agent(assignments, performance_history, CurrentTask, agents).exc
    /\ pc' = "raised"
    /\ UNCHANGED <<tasks, task_order, task_graph, queue, assignments,
                   performance_history, results, metrics, execution_history,
                   ready_tasks, tick_i, agents, max_parallel, callVars>>

\* One iteration of the for loop in which an agent is found: lines 109-135.
DispatchExecute ==
    /\ pc = "tick"
    /\ LET r == assign_agent(assignments, performance_history, CurrentTask, agents)
           id == CurrentTask.id
       IN  /\ ~ r.exc
           /\ r.agent # None
           /\ assignments' = r.assignments
           /\ \E outcomes \in [1 .. Len(DefaultSteps) -> BOOLEAN] :
                 LET execution_result == execute_task(DefaultSteps, outcomes)
                     m == [Manager EXCEPT !.tasks[id] = start(@)]
                 IN  /\ IF execution_result.status = COMPLETED
                        THEN SetManager(_handle_completion(m, id, execution_result))
                        ELSE SetManager(_handle_failure(m, id, execution_result))
                     /\ execution_history' = Append(execution_history,
                            [task_id |-> id, agent_id |-> r.agent,
                             status |-> execution_result.status])
    /\ Advance
    /\ UNCHANGED <<performance_history, ready_tasks, agents, max_parallel, callVars>>

Next ==
    \/ AddTask
    \/ StartRun
    \/ TickBegin
    \/ Return
    \/ DispatchSkip
    \/ DispatchRaise
    \/ DispatchExecute

Spec == Init /\ [][Next]_vars

(***************************************************************************)
(* Properties of TaskManager, checked under Spec.                          *)
(***************************************************************************)
PendingWithDependenciesCompleted ==
    {id \in DOMAIN tasks :
        /\ tasks[id].status = PENDING
        /\ \A d \in Range(tasks[id].dependencies) :
              d \in DOMAIN tasks /\ tasks[d].status = COMPLETED}

\* C1: get_ready_tasks() without a limit returns, once each, exactly the
\* registered tasks that are Pending and whose remaining dependencies all
\* name registered Completed tasks; a task with a dependency that is not
\* Completed is not returned, whatever its priority.
C1_ReadyIffDependenciesCompleted ==
    LET ready == get_ready_tasks(tasks, task_order, NoLimit)
    IN  /\ Range(ready) = PendingWithDependenciesCompleted
        /\ Len(ready) = Cardinality(Range(ready))
        /\ \A i \in 1 .. Len(ready) :
              \A d \in Range(tasks[ready[i]].dependencies) :
                  d \in DOMAIN tasks /\ tasks[d].status = COMPLETED

\* Task 1 (priority 5, no dependency) has completed and task 2 (priority 10,
\* registered as depending on task 1) is the only ready task.
C1_Witness ==
    /\ task_order = <<1, 2>>
    /\ tasks[1].priority = 5 /\ tasks[1].status = COMPLETED
    /\ tasks[2].priority = 10
    /\ <<1, 2>> \in Range(task_graph.edges)
    /\ get_ready_tasks(tasks, task_order, NoLimit) = <<2>>

\* C2: the dependency graph is acyclic in every reachable state (add_task
\* rejects the edges that would close a cycle).
C2_GraphAcyclic ==
    \A n \in task_graph.nodes :
        n \notin {e[2] : e \in {f \in Range(task_graph.edges) :
                                  f[1] \in Reach(task_graph.edges, {n})}}

\* The tasks that failed in this run under failure_strategy skip_dependent.
FailedSkipDependent ==
    {id \in Range(results.failed) :
        tasks[id].failure_strategy = "skip_dependent"}

\* C3: when execute_tasks returns, every transitive descendant of a task
\* that failed under skip_dependent is Skipped and in the skipped list.
C3_CascadeSkipsAllDescendants ==
    pc = "returned" =>
        \A a \in FailedSkipDependent :
            \A d \in get_dependent_tasks(task_graph, a) :
                /\ tasks[d].status = SKIPPED
                /\ d \in Range(results.skipped)

\* C4: a transitive descendant of a task that failed under skip_dependent
\* is in no tick's ready list, holds no worker and has never been started.
C4_DescendantsNeverScheduled ==
    \A a \in FailedSkipDependent :
        \A d \in get_dependent_tasks(task_graph, a) :
            /\ d \notin Range(ready_tasks)
            /\ \A w \in AgentIds : d \notin Range(assignments[w])
            /\ tasks[d].attempts = 0
            /\ \A i \in 1 .. Len(execution_history) :
                  execution_history[i].task_id # d

\* The run has returned after task 1 failed under skip_dependent, with a
\* child (task 2) and a grandchild (task 3) registered, and an idle worker
\* holding the required skills was left.
C4_Witness ==
    /\ pc = "returned"
    /\ 1 \in FailedSkipDependent
    /\ get_dependent_tasks(task_graph, 1) = {2, 3}
    /\ <<2, 3>> \in Range(task_graph.edges)
    /\ agents = <<"a2", "a1">>
    /\ tasks[3].required_skills = {"s1"}
    /\ ~ _is_agent_busy(assignments, "a1")

\* No worker of the pool is idle and holds all the skills of task t.
NoEligibleWorker(t) ==
    \A i \in 1 .. Len(agents) :
        \/ _is_agent_busy(assignments, agents[i])
        \/ ~ (t.required_skills \subseteq AgentSkills[agents[i]])

\* C5: a ready task dispatched when no worker is both idle and skilled
\* becomes Skipped, not Failed: it is not started, its id is appended to
\* the skipped list, tasks_failed and the failed list are unchanged, and
\* the run goes on with the rest of the tick.
C5_NoWorkerMeansSkipped ==
    [][(pc = "tick" /\ NoEligibleWorker(CurrentTask)) =>
          LET id == ready_tasks[tick_i]
          IN  /\ tasks'[id].status = SKIPPED
              /\ tasks'[id].attempts = tasks[id].attempts
              /\ results'.skipped = Append(results.skipped, id)
              /\ results'.failed = results.failed
              /\ metrics'.tasks_failed = metrics.tasks_failed
              /\ execution_history' = execution_history
              /\ assignments' = assignments
              /\ tick_i' = tick_i + 1
              /\ pc' = IF tick_i < Len(ready_tasks) THEN "tick" ELSE "loop"]_vars

\* The only worker lacks the required skill: the first task of the tick was
\* skipped without any failure and the loop is at the next task.
C5_Witness ==
    /\ pc = "tick"
    /\ tick_i = 2
    /\ agents = <<"a3">>
    /\ tasks[ready_tasks[1]].required_skills = {"s1"}
    /\ tasks[ready_tasks[1]].status = SKIPPED
    /\ results.skipped = <<ready_tasks[1]>>
    /\ metrics.tasks_failed = 0

\* C12: no step of the run leaves execute_tasks by an exception: after the
\* failure of a task the run goes on to the next task of the tick.
C12_RunNeverAborts == pc # "raised"

\* The number of entries of the list s that equal x.
Count(s, x) == Cardinality({i \in 1 .. Len(s) : s[i] = x})

Terminal == {COMPLETED, FAILED, SKIPPED}

\* C13: when execute_tasks returns, every Completed, Failed or Skipped task
\* has a non-empty results list or an error.
C13_TerminalHasResultOrError ==
    pc = "returned" =>
        \A id \in DOMAIN tasks :
            tasks[id].status \in Terminal =>
                tasks[id].results # <<>> \/ tasks[id].error # None

\* C14: when execute_tasks returns, no registered task is Pending or
\* InProgress.
C14_ReturnLeavesNoPending ==
    pc = "returned" =>
        \A id \in DOMAIN tasks : tasks[id].status \in Terminal

\* The tasks that failed in this run under failure_strategy alternate and
\* whose alternate task has completed.
FailedWithAlternateCompleted ==
    {a \in Range(results.failed) :
        /\ tasks[a].failure_strategy = "alternate"
        /\ tasks[a].alternate_task \in DOMAIN tasks
        /\ tasks[tasks[a].alternate_task].status = COMPLETED}

\* C15: when execute_tasks returns, a task that depends on a task whose
\* alternate has completed, and whose other dependencies are all
\* Completed, has been dispatched (it is not Pending).
C15_AlternateStandsIn ==
    pc = "returned" =>
        \A a \in FailedWithAlternateCompleted :
            \A t \in DOMAIN tasks :
                (/\ a \in Range(tasks[t].dependencies)
                 /\ \A d \in Range(tasks[t].dependencies) \ {a} :
                       d \in DOMAIN tasks /\ tasks[d].status = COMPLETED)
                    => tasks[t].status # PENDING

\* C16: a tick's ready list holds at most max_parallel tasks, and
\* get_ready_tasks(limit) returns at most limit tasks for every limit >= 0.
C16_ReadyListBounded ==
    /\ Len(ready_tasks) <= max_parallel
    /\ \A limit \in 0 .. (MaxTasks + 1) :
          Len(get_ready_tasks(tasks, task_order, limit)) <= limit

\* C17: no step changes the status of a Completed, Skipped or Failed task,
\* and the step in which a task fails leaves it Pending (reset) when its
\* failure_strategy is retry and Failed otherwise.
C17_TerminalStatusStays ==
    [][\A id \in DOMAIN tasks :
          /\ tasks[id].status \in Terminal
                => tasks'[id].status = tasks[id].status
          /\ results'.failed = Append(results.failed, id)
                => tasks'[id].status =
                       IF tasks[id].failure_strategy = "retry"
                       THEN PENDING ELSE FAILED]_vars

\* The run has returned: task 1 (retry) failed, was reset and completed at
\* its second attempt on the other worker; task 2, which waited for it, was
\* then skipped for lack of a worker.
C17_Witness ==
    /\ pc = "returned"
    /\ results.failed = <<1>>
    /\ results.completed = <<1>>
    /\ tasks[1].failure_strategy = "retry"
    /\ tasks[1].attempts = 2
    /\ tasks[1].status = COMPLETED
    /\ 2 \in DOMAIN tasks
    /\ <<1, 2>> \in Range(task_graph.edges)
    /\ tasks[2].status = SKIPPED

C26_WorkerReleased ==
    \A i \in 1 .. Len(execution_history) :
        ~ _is_agent_busy(assignments, execution_history[i].agent_id)

\* C27: at the start of a tick the ready list is in descending priority
\* order, and no ready task left out of the tick has a strictly higher
\* priority than a task of the tick.
C27_DispatchByPriority ==
    (pc = "tick" /\ tick_i = 1) =>
        LET all == get_ready_tasks(tasks, task_order, NoLimit)
        IN  /\ \A i, j \in 1 .. Len(ready_tasks) :
                  i < j => tasks[ready_tasks[i]].priority
                               >= tasks[ready_tasks[j]].priority
            /\ \A x \in Range(all) \ Range(ready_tasks), y \in Range(ready_tasks) :
                  tasks[x].priority <= tasks[y].priority

\* The workers of the pool that hold no assignment.
IdleAgents == {a \in Range(agents) : ~ _is_agent_busy(assignments, a)}

\* The registered tasks that are not Completed, Failed or Skipped.
Unfinished == {id \in DOMAIN tasks : tasks[id].status \notin Terminal}

\* A step taken inside execute_tasks leaves the call, or lowers the triple
\* (idle workers, unfinished tasks, position) in the lexicographic order;
\* and inside a tick the for loop is at a registered task of the ready list,
\* so that one of the dispatch steps is possible.
RunProgress ==
    pc \in {"loop", "tick"} =>
        /\ pc = "tick" => /\ tick_i \in 1 .. Len(ready_tasks)
                          /\ ready_tasks[tick_i] \in DOMAIN tasks
        /\ \/ pc' \in {"returned", "raised"}
           \/ Cardinality(IdleAgents') < Cardinality(IdleAgents)
           \/ /\ Cardinality(IdleAgents') = Cardinality(IdleAgents)
              /\ Cardinality(Unfinished') < Cardinality(Unfinished)
           \/ /\ Cardinality(IdleAgents') = Cardinality(IdleAgents)
              /\ Cardinality(Unfinished') = Cardinality(Unfinished)
              /\ pc = "loop"
              /\ pc' = "tick"

\* C28: execute_tasks terminates: every step of the loop makes progress in
\* a well-founded order (an execution takes an idle worker for good, a skip
\* finishes a task, the head of the loop enters a tick), so the loop is
\* left after finitely many steps, also when a retry task fails on every
\* attempt and when alternate tasks are registered during the run.
C28_ExecuteTasksTerminates == [][RunProgress]_vars

\* The retry task 1 failed on both workers of the pool, was then skipped for
\* lack of a worker, and the run returned.
C28_Witness ==
    /\ pc = "returned"
    /\ 1 \in DOMAIN tasks
    /\ tasks[1].failure_strategy = "retry"
    /\ tasks[1].attempts = 2
    /\ tasks[1].status = SKIPPED
    /\ results.failed = <<1, 1>>

\* C29: in the result of execute_tasks each task id appears at most once
\* across the completed, failed and skipped lists.
C29_ResultListsDisjoint ==
    pc = "returned" =>
        \A id \in DOMAIN tasks :
            Count(results.completed, id) + Count(results.failed, id)
                + Count(results.skipped, id) <= 1

(***************************************************************************)
(* Specification DepSpec: as Spec, with add_task called on tasks whose     *)
(* dependencies are any list of at most two ids of tasks registered        *)
(* before (Task.dependencies is a list: an id may be listed twice).        *)
(***************************************************************************)
DepListsAny(id) ==
    {<<>>} \cup {<<d>> : d \in 1 .. (id - 1)}
           \cup {<<d, e>> : d \in 1 .. (id - 1), e \in 1 .. (id - 1)}

DepProfiles == {p \in TaskProfiles : p.failure_strategy # "alternate"}

\* TaskManager.add_task, called by the owner before the run.
AddTaskDeps ==
    /\ pc = "idle"
    /\ Len(task_order) < MaxTasks
    /\ \E deps \in DepListsAny(Len(task_order) + 1), p \in DepProfiles :
          SetManager(add_task(Manager,
              NewTask(Len(task_order) + 1, deps, p.priority,
                      p.required_skills, p.failure_strategy, NoAlt)))
    /\ UNCHANGED <<assignments, performance_history, execution_history, pc,
                   ready_tasks, tick_i, agents, max_parallel, callVars>>

DepNext ==
    \/ AddTaskDeps
    \/ StartRun
    \/ TickBegin
    \/ Return
    \/ DispatchSkip
    \/ DispatchRaise
    \/ DispatchExecute

DepSpec == Init /\ [][DepNext]_vars

\* The list s without the entries equal to x.
Without(s, x) == LET keep(d) == d # x IN SelectSeq(s, keep)

\* C11: the step in which task a is completed leaves a in the dependency
\* list of no registered task, and changes no dependency list in any other
\* way; no step adds to, or reorders, the dependency list of a task.
C11_CompletionRemovesDependency ==
    [][\A t \in DOMAIN tasks :
          /\ \A a \in DOMAIN tasks :
                (tasks[a].status # COMPLETED /\ tasks'[a].status = COMPLETED)
                    => /\ a \notin Range(tasks'[t].dependencies)
                       /\ tasks'[t].dependencies =
                              Without(tasks[t].dependencies, a)
          /\ (\A a \in DOMAIN tasks :
                 tasks[a].status = COMPLETED \/ tasks'[a].status # COMPLETED)
                => tasks'[t].dependencies = tasks[t].dependencies]_vars

(***************************************************************************)
(* Specification SchedSpec: assign_agent and complete_task calls on a      *)
(* fresh TaskScheduler, with any task and any pool.                        *)
(***************************************************************************)
SchedSkills == SUBSET {"s1", "s2"}

SchedResources == {EmptyDict, [k \in {"cpu"} |-> 2]}

SchedPools ==
    {<<"a1">>, <<"a3">>, <<"a1", "a2">>, <<"a2", "a1">>, <<"a3", "a1">>,
     <<"a2", "a3">>, <<"a3", "a2", "a1">>}

\* The ids of the tasks handed to the scheduler.
SchedTaskIds == {1, 2}

SchedInit == Init

SchedAssign ==
    /\ \E id \in SchedTaskIds, skills \in SchedSkills, res \in SchedResources,
          pool \in SchedPools :
          LET task == [NewTask(id, <<>>, 5, skills, "skip_dependent", NoAlt)
                          EXCEPT !.resources = res]
              r == assign_agent(assignments, performance_history, task, pool)
          IN  /\ assignments' = r.assignments
              /\ sched' = [op |-> "assign_agent",
                           required_skills |-> skills,
                           resources |-> res,
                           pool |-> pool,
                           idle |-> {a \in Range(pool) :
                                        ~ _is_agent_busy(assignments, a)},
                           exc |-> r.exc,
                           agent |-> r.agent]
    /\ UNCHANGED <<performance_history, runVars, exec, llm, task_life,
                   task_queue, legacy, team_queue>>

SchedComplete ==
    /\ SeqSum([i \in 1 .. 3 |->
                  Len(performance_history[<<"a1", "a2", "a3">>[i]])]) < MaxReports
    /\ \E a \in AgentIds, id \in SchedTaskIds, success \in BOOLEAN :
          LET r == complete_task(assignments, performance_history, a, id, success)
          IN  /\ assignments' = r.assignments
              /\ performance_history' = r.performance_history
              /\ sched' = [op |-> "complete_task"]
    /\ UNCHANGED <<runVars, exec, llm, task_life, task_queue, legacy,
                   team_queue>>

SchedNext == SchedAssign \/ SchedComplete

SchedSpec == SchedInit /\ [][SchedNext]_vars

\* C6: for a task with at least one required skill, the worker returned by
\* assign_agent is a worker of the pool that holds every required skill.
C6_AssignedWorkerHasSkills ==
    (/\ sched.op = "assign_agent"
     /\ sched.required_skills # {}
     /\ sched.agent # None)
        => /\ ~ sched.exc
           /\ sched.agent \in Range(sched.pool)
           /\ sched.required_skills \subseteq AgentSkills[sched.agent]

\* A task requiring s2 and cpu went to a1 although the idle a2, which lacks
\* s2, has the better performance history.
C6_Witness ==
    /\ sched.op = "assign_agent"
    /\ sched.required_skills = {"s2"}
    /\ sched.pool = <<"a2", "a1">>
    /\ sched.idle = {"a1", "a2"}
    /\ performance_history["a2"] = <<1>>
    /\ performance_history["a1"] = <<0>>
    /\ sched.agent = "a1"

\* C7: for a task without required skills, assign_agent raises no error and
\* returns a worker whenever the pool holds an idle one.
C7_NoSkillsAssigned ==
    (/\ sched.op = "assign_agent"
     /\ sched.required_skills = {}
     /\ sched.idle # {})
        => /\ ~ sched.exc
           /\ sched.agent \in sched.idle

\* C25: each worker has at most one task recorded in the scheduler's
\* assignments, and the worker returned by assign_agent held no assignment
\* when the call was made.
C25_OneAssignmentPerWorker ==
    /\ \A a \in AgentIds : Len(assignments[a]) <= 1
    /\ (sched.op = "assign_agent" /\ sched.agent # None)
          => /\ sched.agent \in sched.idle
             /\ Len(assignments[sched.agent]) = 1

\* With a2 still holding a task, a call over the pool a2, a1 returned a1.
C25_Witness ==
    /\ sched.op = "assign_agent"
    /\ sched.pool = <<"a2", "a1">>
    /\ sched.idle = {"a1"}
    /\ sched.required_skills = {"s1"}
    /\ sched.agent = "a1"
    /\ Len(assignments["a2"]) = 1

\* C19: the worker returned by a call of assign_agent is the one every call
\* with the same task, the same scheduler state and a pool of the same
\* workers in another order returns.
C19_AssignIgnoresPoolOrder ==
    [][sched'.op = "assign_agent" =>
          \A pool \in SchedPools :
              Range(pool) = Range(sched'.pool) =>
                  LET task == [NewTask(1, <<>>, 5, sched'.required_skills,
                                       "skip_dependent", NoAlt)
                                  EXCEPT !.resources = sched'.resources]
                      r == assign_agent(assignments, performance_history,
                                        task, pool)
                  IN  /\ r.exc = sched'.exc
                      /\ r.agent = sched'.agent]_vars

(***************************************************************************)
(* Specification ExecSpec: one call of TaskExecutor.execute_task on any    *)
(* list of at most MaxSteps steps, with any outcome of each step handler.  *)
(***************************************************************************)
StepDefs == [type : {"default"}, fail_fast : BOOLEAN]

ExecInputs ==
    UNION {[op : {"input"}, steps : [1 .. n -> StepDefs],
            outcomes : [1 .. n -> BOOLEAN]] : n \in 0 .. MaxSteps}

ExecInit ==
    /\ ManagerInit
    /\ sched = NoCall
    /\ exec \in ExecInputs
    /\ llm = NoCall
    /\ task_life = NoCall
    /\ task_queue = NoCall
    /\ legacy = NoCall
    /\ team_queue = NoCall

ExecuteTask ==
    /\ exec.op = "input"
    /\ exec' = [op |-> "execute_task",
                steps |-> exec.steps,
                outcomes |-> exec.outcomes,
                result |-> execute_task(exec.steps, exec.outcomes)]
    /\ UNCHANGED <<runVars, assignments, performance_history, sched, llm,
                   task_life, task_queue, legacy, team_queue>>

ExecNext == ExecuteTask

ExecSpec == ExecInit /\ [][ExecNext]_vars

\* The position of the first step whose handler fails, 0 when none does.
FirstFailure(outcomes) ==
    IF \A i \in 1 .. Len(outcomes) : outcomes[i] THEN 0
    ELSE CHOOSE k \in 1 .. Len(outcomes) :
             /\ ~ outcomes[k]
             /\ \A i \in 1 .. (k - 1) : outcomes[i]

\* C8: when the first failing step sets fail_fast, the result is Failed, no
\* later step is run and steps_completed counts the steps that succeeded
\* before it.
C8_FailFastAborts ==
    (exec.op = "execute_task" /\ FirstFailure(exec.outcomes) # 0) =>
        LET k == FirstFailure(exec.outcomes)
        IN  exec.steps[k].fail_fast =>
                /\ exec.result.status = FAILED
                /\ Len(exec.result.output) = k
                /\ exec.result.steps_completed = k - 1

\* C9: when steps fail and none of them sets fail_fast, every step of the
\* task is executed and the task is then reported Failed.
C9_ContinuesWithoutFailFast ==
    (/\ exec.op = "execute_task"
     /\ FirstFailure(exec.outcomes) # 0
     /\ \A i \in 1 .. Len(exec.steps) :
           ~ exec.outcomes[i] => ~ exec.steps[i].fail_fast)
        => /\ exec.result.status = FAILED
           /\ Len(exec.result.output) = Len(exec.steps)

(***************************************************************************)
(* Specification CondSpec: one call of TaskExecutor.execute_task on steps  *)
(* that carry a "condition" entry, with any outcome of each step handler.  *)
(***************************************************************************)
\* The step has no "condition" key.
NoCondition == [type |-> "none", value |-> 0]

StepConditions ==
    {NoCondition,
     [type |-> "all_success", value |-> 0],
     [type |-> "any_success", value |-> 0],
     [type |-> "threshold", value |-> 1],
     [type |-> "threshold", value |-> 2]}

CondStepDefs ==
    [type : {"default"}, fail_fast : {FALSE}, condition : StepConditions]

CondInputs ==
    UNION {[op : {"input"}, steps : [1 .. n -> CondStepDefs],
            outcomes : [1 .. n -> BOOLEAN]] : n \in 0 .. MaxSteps}

CondInit ==
    /\ ManagerInit
    /\ sched = NoCall
    /\ exec \in CondInputs
    /\ llm = NoCall
    /\ task_life = NoCall
    /\ task_queue = NoCall
    /\ legacy = NoCall
    /\ team_queue = NoCall

CondSpec == CondInit /\ [][ExecNext]_vars

\* The condition c over the results prior of the steps executed so far.
ConditionHolds(c, prior) ==
    LET succeeded == {i \in 1 .. Len(prior) : prior[i].success}
    IN  CASE c.type = "all_success" -> Cardinality(succeeded) = Len(prior)
          [] c.type = "any_success" -> succeeded # {}
          [] c.type = "threshold"   -> Cardinality(succeeded) >= c.value
          [] OTHER                  -> TRUE

\* C23: every step that execute_task dispatched to a handler had no
\* condition or a condition that held over the results of the steps
\* executed before it, and the task failed only by a failed handler.
C23_ConditionGatesStep ==
    exec.op = "execute_task" =>
        /\ \A i \in 1 .. Len(exec.result.output) :
              ConditionHolds(exec.steps[i].condition,
                             SubSeq(exec.result.output, 1, i - 1))
        /\ exec.result.status = FAILED =>
              \E i \in 1 .. Len(exec.result.output) :
                  ~ exec.result.output[i].success

(***************************************************************************)
(* Specification LifeSpec: at most MaxCalls calls, in any order, of the    *)
(* lifecycle methods of one fresh Task.  task_life.t is the Task,          *)
(* success_rate its metrics["success_rate"] as the fraction <<p, q>>, log  *)
(* the methods called so far, raised whether the last call raised.         *)
(***************************************************************************)
LifeResult == execute_task(DefaultSteps, <<TRUE>>)

LifeError == "Step failed"

LifeInit ==
    /\ ManagerInit
    /\ sched = NoCall
    /\ exec = NoCall
    /\ llm = NoCall
    /\ task_life = [op |-> "Task",
                    t |-> NewTask(1, <<>>, 0, {}, "skip_dependent", NoAlt),
                    success_rate |-> <<0, 1>>,
                    log |-> <<>>,
                    raised |-> FALSE]
    /\ task_queue = NoCall
    /\ legacy = NoCall
    /\ team_queue = NoCall

\* Task._update_metrics(success): divides by metrics["attempts"].
TaskUpdateMetrics(life, success) ==
    LET total_attempts == life.t.attempts
        p == life.success_rate[1]
        q == life.success_rate[2]
    IN  IF total_attempts = 0
        THEN [life EXCEPT !.raised = TRUE]
        ELSE [life EXCEPT
                 !.success_rate =
                     <<p * (total_attempts - 1) + (IF success THEN q ELSE 0),
                       q * total_attempts>>,
                 !.raised = FALSE]

LifeCall(name, life) ==
    /\ task_life.op = "Task"
    /\ Len(task_life.log) < MaxCalls
    /\ task_life' = [life EXCEPT !.log = Append(@, name)]
    /\ UNCHANGED <<runVars, assignments, performance_history, sched, exec,
                   llm, task_queue, legacy, team_queue>>

TaskStart ==
    LifeCall("start",
             [task_life EXCEPT !.t = start(@), !.raised = FALSE])

TaskComplete ==
    LifeCall("complete",
             TaskUpdateMetrics([task_life EXCEPT !.t = complete(@, LifeResult)],
                               TRUE))

TaskFail ==
    LifeCall("fail",
             TaskUpdateMetrics([task_life EXCEPT !.t = fail(@, LifeError)],
                               FALSE))

TaskSkip ==
    LifeCall("skip", [task_life EXCEPT !.t = skip(@), !.raised = FALSE])

TaskBlock ==
    LifeCall("block", [task_life EXCEPT !.t = block(@), !.raised = FALSE])

TaskReset ==
    LifeCall("reset", [task_life EXCEPT !.t = reset(@), !.raised = FALSE])

LifeNext ==
    \/ TaskStart
    \/ TaskComplete
    \/ TaskFail
    \/ TaskSkip
    \/ TaskBlock
    \/ TaskReset

LifeSpec == LifeInit /\ [][LifeNext]_vars

\* The task failed, was then reset, started and completed, and had not
\* completed before.
RetriedToSuccess ==
    LET log == task_life.log
        n == Len(log)
    IN  /\ n >= 4
        /\ SubSeq(log, n - 2, n) = <<"reset", "start", "complete">>
        /\ \E i \in 1 .. (n - 3) : log[i] = "fail"
        /\ Count(log, "complete") = 1

\* The state of a task completed at its first attempt.
FirstAttemptSuccess ==
    complete(start(NewTask(1, <<>>, 0, {}, "skip_dependent", NoAlt)), LifeResult)

\* C18: attempts is the number of start() calls made on the task; a task
\* that failed, was reset and is then started and completed has the status
\* (Completed), the error (none), the current_step and the number of
\* results (one) of a task completed at its first attempt.
C18_RetryIdempotent ==
    task_life.op = "Task" =>
        /\ task_life.t.attempts = Count(task_life.log, "start")
        /\ RetriedToSuccess =>
              /\ task_life.t.status = COMPLETED
              /\ task_life.t.status = FirstAttemptSuccess.status
              /\ task_life.t.error = None
              /\ task_life.t.error = FirstAttemptSuccess.error
              /\ task_life.t.current_step = FirstAttemptSuccess.current_step
              /\ Len(task_life.t.results) = 1
              /\ task_life.t.results = FirstAttemptSuccess.results

\* start, fail, reset, start, complete: the second attempt succeeded.
C18_Witness ==
    /\ task_life.op = "Task"
    /\ task_life.log = <<"start", "fail", "reset", "start", "complete">>
    /\ task_life.t.attempts = 2
    /\ task_life.t.status = COMPLETED
    /\ ~ task_life.raised

(***************************************************************************)
(* Specification QueueSpec: add and get calls on a fresh TaskQueue.  The   *)
(* tasks are constructed in any order of their ids (uuid4 strings in the   *)
(* code) and may be started by their owner while queued.  task_queue.q is  *)
(* the queue, objects the Task objects it refers to, added the ids in the  *)
(* order of the add calls, got the ids returned by the get calls.          *)
(***************************************************************************)
QueuePriorities == {1, 2}

\* get() returned None.
NoTask == 0

QueueSpecInit ==
    /\ ManagerInit
    /\ sched = NoCall
    /\ exec = NoCall
    /\ llm = NoCall
    /\ task_life = NoCall
    /\ task_queue = [op |-> "TaskQueue",
                     q |-> QueueInit,
                     objects |-> [id \in {} |-> 0],
                     total_dequeued |-> 0,
                     added |-> <<>>,
                     got |-> <<>>]
    /\ legacy = NoCall
    /\ team_queue = NoCall

\* The order of the tuples (-priority, id) in the PriorityQueue.
TupleLess(x, y) == x[1] < y[1] \/ (x[1] = y[1] /\ x[2] < y[2])

\* PriorityQueue.get(): the smallest entry of the heap.
HeapMin(heap) ==
    CHOOSE x \in BagToSet(heap) :
        \A y \in BagToSet(heap) : x = y \/ TupleLess(x, y)

\* TaskQueue.get on queue q with Task objects objs:
\* [task |-> the id returned or NoTask, q |-> the queue left,
\*  dequeued |-> the increment of stats["total_dequeued"]].
RECURSIVE QueueGet(_, _)
QueueGet(q, objs) ==
    IF q.heap = EmptyBag
    THEN [task |-> NoTask, q |-> q, dequeued |-> 0]
    ELSE LET m == HeapMin(q.heap)
             q1 == [q EXCEPT !.heap = @ (-) SetToBag({m})]
         IN  IF objs[m[2]].status = PENDING
             THEN [task |-> m[2], q |-> q1, dequeued |-> 1]
             ELSE QueueGet(q1, objs)

QueueAddCall ==
    /\ task_queue.op = "TaskQueue"
    /\ \E id \in TaskIds \ DOMAIN task_queue.objects, p \in QueuePriorities :
          LET t == NewTask(id, <<>>, p, {}, "skip_dependent", NoAlt)
          IN  task_queue' =
                  [task_queue EXCEPT
                      !.q = QueueAdd(@, t),
                      !.objects = [i \in DOMAIN @ \cup {id} |->
                                      IF i = id THEN t ELSE @[i]],
                      !.added = Append(@, id)]
    /\ UNCHANGED <<runVars, assignments, performance_history, sched, exec,
                   llm, task_life, legacy, team_queue>>

QueueGetCall ==
    /\ task_queue.op = "TaskQueue"
    /\ Len(task_queue.got) < MaxTasks
    /\ LET r == QueueGet(task_queue.q, task_queue.objects)
       IN  task_queue' =
               [task_queue EXCEPT
                   !.q = r.q,
                   !.total_dequeued = @ + r.dequeued,
                   !.got = Append(@, r.task)]
    /\ UNCHANGED <<runVars, assignments, performance_history, sched, exec,
                   llm, task_life, legacy, team_queue>>

\* The owner of a queued task starts it (Task.start).
QueueTaskStart ==
    /\ task_queue.op = "TaskQueue"
    /\ \E id \in DOMAIN task_queue.objects :
          /\ task_queue.objects[id].status = PENDING
          /\ task_queue' = [task_queue EXCEPT !.objects[id] = start(@)]
    /\ UNCHANGED <<runVars, assignments, performance_history, sched, exec,
                   llm, task_life, legacy, team_queue>>

QueueNext ==
    \/ QueueAddCall
    \/ QueueGetCall
    \/ QueueTaskStart

QueueSpec == QueueSpecInit /\ [][QueueNext]_vars

\* The Pending tasks that have an entry in the queue.
QueuedPending ==
    {id \in DOMAIN task_queue.objects :
        /\ task_queue.objects[id].status = PENDING
        /\ \E x \in BagToSet(task_queue.q.heap) : x[2] = id}

\* The position of id in the order of the add calls.
AddedAt(id) == CHOOSE i \in 1 .. Len(task_queue.added) : task_queue.added[i] = id

\* C20: the task a get() call returns has the highest priority of the
\* queued Pending tasks and, among those of that priority, is the one
\* added first.
C20_GetByPriorityThenFifo ==
    [][\A id \in TaskIds :
          task_queue'.got = Append(task_queue.got, id) =>
              /\ id \in QueuedPending
              /\ \A o \in QueuedPending \ {id} :
                    \/ task_queue.objects[id].priority
                           > task_queue.objects[o].priority
                    \/ /\ task_queue.objects[id].priority
                              = task_queue.objects[o].priority
                       /\ AddedAt(id) < AddedAt(o)]_vars

(***************************************************************************)
(* Specification LegacySpec: the TaskExecutor of the task_manager package  *)
(* (task_manager/task_executor.py) run on a TaskGraph                      *)
(* (task_manager/task_graph.py) of MaxTasks tasks.  legacy.threads[k] is   *)
(* worker thread k of run_parallel (the single loop of run_sequential when *)
(* parallel is false): pc is its position, task the task it holds.  The    *)
(* try block of execute_task (print, sleep, a dict store) raises nothing,  *)
(* so an execution is its begin (the task is picked up) and its end        *)
(* (task_status[task] = "Completed").                                      *)
(***************************************************************************)
\* The dependencies passed to TaskGraph.add_task for task id.
LegacyDeps(id) == {<<>>} \cup {<<d>> : d \in TaskIds \ {id}}

\* TaskGraph.add_task for the tasks 1 .. MaxTasks, deps[id] their dependencies.
RECURSIVE LegacyGraph(_, _)
LegacyGraph(deps, n) ==
    IF n = 0 THEN [nodes |-> {}, edges |-> <<>>]
    ELSE GraphAddEdges(GraphAddNode(LegacyGraph(deps, n - 1), n), deps[n], n)

\* nx.is_directed_acyclic_graph
IsAcyclic(g) ==
    \A n \in g.nodes :
        n \notin {e[2] : e \in {f \in Range(g.edges) :
                                  f[1] \in Reach(g.edges, {n})}}

\* The lists nx.topological_sort may return: the orders of the nodes in
\* which every edge points forward.
TopologicalOrders(g) ==
    {o \in [1 .. Cardinality(g.nodes) -> g.nodes] :
        /\ \A i, j \in DOMAIN o : i # j => o[i] # o[j]
        /\ \A e \in Range(g.edges) :
              \E i, j \in DOMAIN o : i < j /\ o[i] = e[1] /\ o[j] = e[2]}

\* min(len(tasks), 4)
LegacyThreadCount(order) == IF Len(order) < 4 THEN Len(order) ELSE 4

NoThreads == [k \in {} |-> 0]

LegacyInit ==
    /\ ManagerInit
    /\ sched = NoCall
    /\ exec = NoCall
    /\ llm = NoCall
    /\ task_life = NoCall
    /\ task_queue = NoCall
    /\ \E deps \in [TaskIds -> UNION {LegacyDeps(id) : id \in TaskIds}],
          par \in BOOLEAN :
          /\ \A id \in TaskIds : deps[id] \in LegacyDeps(id)
          /\ legacy = [op |-> "TaskExecutor",
                       task_graph |-> LegacyGraph(deps, MaxTasks),
                       parallel |-> par,
                       task_status |-> [n \in {} |-> 0],
                       pc |-> "built",
                       order |-> <<>>,
                       q |-> <<>>,
                       threads |-> NoThreads,
                       executions |-> <<>>]
    /\ team_queue = NoCall

LegacyUnchanged ==
    UNCHANGED <<runVars, assignments, performance_history, sched, exec, llm,
                task_life, task_queue, team_queue>>

\* run(): get_execution_order raises ValueError on a cycle.
LegacyRunRaise ==
    /\ legacy.op = "TaskExecutor"
    /\ legacy.pc = "built"
    /\ ~ IsAcyclic(legacy.task_graph)
    /\ legacy' = [legacy EXCEPT !.pc = "raised"]
    /\ LegacyUnchanged

\* run() up to the first thread.start() (parallel) or the first iteration
\* of the for loop (sequential).
LegacyRun ==
    /\ legacy.op = "TaskExecutor"
    /\ legacy.pc = "built"
    /\ IsAcyclic(legacy.task_graph)
    /\ \E order \in TopologicalOrders(legacy.task_graph) :
          legacy' = [legacy EXCEPT
                        !.pc = "running",
                        !.order = order,
                        !.q = order,
                        !.threads =
                            [k \in 1 .. (IF legacy.parallel
                                         THEN LegacyThreadCount(order) ELSE 1)
                                |-> [pc |-> IF legacy.parallel THEN "new"
                                            ELSE "for",
                                     task |-> NoTask]]]
    /\ LegacyUnchanged

\* thread.start() of the next thread, in the order of the list threads.
LegacyThreadStart ==
    /\ legacy.op = "TaskExecutor"
    /\ legacy.pc = "running"
    /\ \E k \in DOMAIN legacy.threads :
          /\ legacy.threads[k].pc = "new"
          /\ \A j \in 1 .. (k - 1) : legacy.threads[j].pc # "new"
          /\ legacy' = [legacy EXCEPT !.threads[k].pc = "empty"]
    /\ LegacyUnchanged

\* worker: the test `not task_queue.empty()`.
WorkerEmpty(k) ==
    /\ legacy.op = "TaskExecutor"
    /\ k \in DOMAIN legacy.threads
    /\ legacy.threads[k].pc = "empty"
    /\ legacy' = [legacy EXCEPT
                     !.threads[k].pc = IF legacy.q = <<>> THEN "exit" ELSE "get"]
    /\ LegacyUnchanged

\* worker: task_queue.get(), which blocks while the queue is empty,
\* followed by the begin of execute_task(task).
WorkerGet(k) ==
    /\ legacy.op = "TaskExecutor"
    /\ k \in DOMAIN legacy.threads
    /\ legacy.threads[k].pc = "get"
    /\ legacy.q # <<>>
    /\ legacy' = [legacy EXCEPT
                     !.q = Tail(@),
                     !.threads[k] = [pc |-> "execute", task |-> Head(legacy.q)],
                     !.executions = Append(@, Head(legacy.q))]
    /\ LegacyUnchanged

\* run_sequential: the for loop takes the next task and begins
\* execute_task(task), or ends.
SequentialNext ==
    /\ legacy.op = "TaskExecutor"
    /\ 1 \in DOMAIN legacy.threads
    /\ legacy.threads[1].pc = "for"
    /\ legacy' = IF legacy.q = <<>>
                 THEN [legacy EXCEPT !.threads[1].pc = "exit"]
                 ELSE [legacy EXCEPT
                          !.q = Tail(@),
                          !.threads[1] = [pc |-> "execute",
                                          task |-> Head(legacy.q)],
                          !.executions = Append(@, Head(legacy.q))]
    /\ LegacyUnchanged

\* The end of execute_task(task): task_status[task] = "Completed".
ExecuteTaskEnd(k) ==
    /\ legacy.op = "TaskExecutor"
    /\ k \in DOMAIN legacy.threads
    /\ legacy.threads[k].pc = "execute"
    /\ LET name == legacy.threads[k].task
       IN  legacy' = [legacy EXCEPT
                        !.task_status =
                            [n \in DOMAIN @ \cup {name} |->
                                IF n = name THEN "Completed" ELSE @[n]],
                        !.threads[k] =
                            [pc |-> IF legacy.parallel THEN "empty" ELSE "for",
                             task |-> NoTask]]
    /\ LegacyUnchanged

\* The joins of run_parallel (or the end of run_sequential), and the
\* return of run().
LegacyReturn ==
    /\ legacy.op = "TaskExecutor"
    /\ legacy.pc = "running"
    /\ \A k \in DOMAIN legacy.threads : legacy.threads[k].pc = "exit"
    /\ legacy' = [legacy EXCEPT !.pc = "returned"]
    /\ LegacyUnchanged

LegacyWorkers == 1 .. 4

LegacyNext ==
    \/ LegacyRunRaise
    \/ LegacyRun
    \/ LegacyThreadStart
    \/ \E k \in LegacyWorkers : WorkerEmpty(k)
    \/ \E k \in LegacyWorkers : WorkerGet(k)
    \/ SequentialNext
    \/ \E k \in LegacyWorkers : ExecuteTaskEnd(k)
    \/ LegacyReturn

LegacySpec == LegacyInit /\ [][LegacyNext]_vars

\* The threads run by thread.start() and the main thread keep being
\* scheduled.
LegacyFairSpec ==
    /\ LegacySpec
    /\ WF_vars(LegacyRunRaise \/ LegacyRun \/ LegacyThreadStart
                  \/ SequentialNext \/ LegacyReturn)
    /\ \A k \in LegacyWorkers :
          WF_vars(WorkerEmpty(k) \/ WorkerGet(k) \/ ExecuteTaskEnd(k))

\* The tasks that task name depends on in the TaskGraph.
LegacyPredecessors(name) ==
    {e[1] : e \in {f \in Range(legacy.task_graph.edges) : f[2] = name}}

\* C22: in parallel mode as in sequential mode, the execution of a task
\* begins only when every task it depends on is marked Completed.
C22_LegacyRespectsDependencies ==
    [][\A name \in TaskIds :
          legacy'.executions = Append(legacy.executions, name) =>
              \A d \in LegacyPredecessors(name) :
                  /\ d \in DOMAIN legacy.task_status
                  /\ legacy.task_status[d] = "Completed"]_vars

\* C30: a started run_parallel returns (every worker exits, every join
\* completes), with each task executed exactly once.
C30_RunParallelReturns ==
    (legacy.pc = "running" /\ legacy.parallel) ~>
        (/\ legacy.pc = "returned"
         /\ \A name \in TaskIds : Count(legacy.executions, name) = 1)

(***************************************************************************)
(* Specification TeamSpec: add calls on a fresh team TaskQueue             *)
(* (team/task.py), then one call of next().  team_queue.heap is the        *)
(* PriorityQueue, objects the Task objects (priority and dependencies),    *)
(* pc the position in next(), entry the entry popped last.                 *)
(***************************************************************************)
\* The dependency lists of the queued tasks: none, or one task that has not
\* completed.
TeamDependencies == {<<>>, <<MaxTasks + 1>>}

TeamInit ==
    /\ ManagerInit
    /\ sched = NoCall
    /\ exec = NoCall
    /\ llm = NoCall
    /\ task_life = NoCall
    /\ task_queue = NoCall
    /\ legacy = NoCall
    /\ team_queue = [op |-> "TaskQueue",
                     heap |-> EmptyBag,
                     objects |-> [id \in {} |-> 0],
                     pc |-> "idle",
                     entry |-> <<>>,
                     examined |-> {},
                     result |-> NoTask]

TeamUnchanged ==
    UNCHANGED <<runVars, assignments, performance_history, sched, exec, llm,
                task_life, task_queue, legacy>>

\* TaskQueue.add (team/task.py)
TeamAdd ==
    /\ team_queue.op = "TaskQueue"
    /\ team_queue.pc = "idle"
    /\ \E id \in TaskIds \ DOMAIN team_queue.objects, p \in QueuePriorities,
          deps \in TeamDependencies :
          team_queue' =
              [team_queue EXCEPT
                  !.heap = @ (+) SetToBag({<<0 - p, id>>}),
                  !.objects = [i \in DOMAIN @ \cup {id} |->
                                  IF i = id
                                  THEN [priority |-> p, dependencies |-> deps]
                                  ELSE @[i]]]
    /\ TeamUnchanged

\* next() is called.
TeamNextCall ==
    /\ team_queue.op = "TaskQueue"
    /\ team_queue.pc = "idle"
    /\ team_queue' = [team_queue EXCEPT !.pc = "while"]
    /\ TeamUnchanged

\* The while test and `_, task_id = self._queue.get()`.
TeamNextGet ==
    /\ team_queue.op = "TaskQueue"
    /\ team_queue.pc = "while"
    /\ team_queue' =
          IF team_queue.heap = EmptyBag
          THEN [team_queue EXCEPT !.pc = "returned", !.result = NoTask]
          ELSE LET m == HeapMin(team_queue.heap)
               IN  [team_queue EXCEPT
                       !.heap = @ (-) SetToBag({m}),
                       !.entry = m,
                       !.pc = "is_ready"]
    /\ TeamUnchanged

\* `if task.is_ready(): return task`, else the entry is put back.
TeamNextCheck ==
    /\ team_queue.op = "TaskQueue"
    /\ team_queue.pc = "is_ready"
    /\ LET task_id == team_queue.entry[2]
           task == team_queue.objects[task_id]
       IN  team_queue' =
               IF Len(task.dependencies) = 0
               THEN [team_queue EXCEPT !.pc = "returned", !.result = task_id]
               ELSE [team_queue EXCEPT
                        !.heap = @ (+) SetToBag({<<0 - task.priority, task_id>>}),
                        !.examined = @ \cup {task_id},
                        !.pc = "while"]
    /\ TeamUnchanged

TeamNext ==
    \/ TeamAdd
    \/ TeamNextCall
    \/ TeamNextGet
    \/ TeamNextCheck

TeamSpec == TeamInit /\ [][TeamNext]_vars

\* The thread that called next() keeps running.
TeamFairSpec == TeamSpec /\ WF_vars(TeamNextGet \/ TeamNextCheck)

\* The queued tasks without dependencies.
TeamReady ==
    {id \in DOMAIN team_queue.objects :
        Len(team_queue.objects[id].dependencies) = 0}

\* C24: a call of next() returns; it returns a ready task of the highest
\* priority among the ready tasks, or None when no queued task is ready,
\* and the entries of the tasks that were not ready are still queued.
C24_TeamNextReturns ==
    (team_queue.pc = "while") ~>
        (/\ team_queue.pc = "returned"
         /\ IF TeamReady = {} THEN team_queue.result = NoTask
            ELSE /\ team_queue.result \in TeamReady
                 /\ \A o \in TeamReady :
                       team_queue.objects[o].priority
                           <= team_queue.objects[team_queue.result].priority
         /\ \A id \in team_queue.examined :
               \E x \in BagToSet(team_queue.heap) : x[2] = id)

(***************************************************************************)
(* Specification LlmSpec: one call of TaskExecutor._handle_llm_step, from  *)
(* the retry parameters on (lines 301-356).  The provider answers each     *)
(* call with a text, with an empty response, or by raising.                *)
(***************************************************************************)
ProviderOutcomes == {"text", "empty", "raise"}

\* time.sleep(retry_delay * attempt): the wait of a loop that counts from 1.
llm_backoff_mut(retry_delay, attempt) == retry_delay * attempt

\* time.sleep(retry_delay * (attempt + 1)), attempt counting from 0.
llm_backoff(retry_delay, attempt) == retry_delay * (attempt + 1)

\* str(e) of the exception caught for a failed attempt.
LlmError(outcome) ==
    IF outcome = "empty" THEN "Empty response from LLM" ELSE "provider error"

LlmInit ==
    /\ ManagerInit
    /\ sched = NoCall
    /\ exec = NoCall
    /\ llm \in [op : {"_handle_llm_step"},
                 max_retries : 0 .. MaxRetries,
                 retry_delay : 1 .. MaxDelay,
                 attempt : {0},
                 calls : {<<>>},
                 sleeps : {<<>>},
                 memory : {<<>>},
                 last_error : {None},
                 pc : {"loop"}]
    /\ task_life = NoCall
    /\ task_queue = NoCall
    /\ legacy = NoCall
    /\ team_queue = NoCall

\* An iteration of the for loop in which the provider returns a text.
LlmSuccess ==
    /\ llm.op = "_handle_llm_step"
    /\ llm.pc = "loop"
    /\ llm.attempt < llm.max_retries
    /\ llm' = [llm EXCEPT
                  !.calls = Append(@, "text"),
                  !.memory = Append(@, <<"llm_response", llm.attempt + 1>>),
                  !.pc = "returned"]
    /\ UNCHANGED <<runVars, assignments, performance_history, sched, exec,
                   task_life, task_queue, legacy, team_queue>>

\* An iteration of the for loop in which the provider raises or returns an
\* empty response.
LlmFailure ==
    /\ llm.op = "_handle_llm_step"
    /\ llm.pc = "loop"
    /\ llm.attempt < llm.max_retries
    /\ \E outcome \in ProviderOutcomes \ {"text"} :
          llm' = IF llm.attempt < llm.max_retries - 1
                 THEN [llm EXCEPT
                          !.calls = Append(@, outcome),
                          !.last_error = LlmError(outcome),
                          !.memory = Append(@, <<"llm_error", llm.attempt + 1>>),
                          !.sleeps = Append(@, llm_backoff(llm.retry_delay,
                                                           llm.attempt)),
                          !.attempt = @ + 1]
                 ELSE [llm EXCEPT
                          !.calls = Append(@, outcome),
                          !.last_error = LlmError(outcome),
                          !.attempt = @ + 1]
    /\ UNCHANGED <<runVars, assignments, performance_history, sched, exec,
                   task_life, task_queue, legacy, team_queue>>

\* The for loop is exhausted: the handler raises.
LlmExhausted ==
    /\ llm.op = "_handle_llm_step"
    /\ llm.pc = "loop"
    /\ llm.attempt >= llm.max_retries
    /\ llm' = [llm EXCEPT !.pc = "raised"]
    /\ UNCHANGED <<runVars, assignments, performance_history, sched, exec,
                   task_life, task_queue, legacy, team_queue>>

LlmNext == LlmSuccess \/ LlmFailure \/ LlmExhausted

LlmSpec == LlmInit /\ [][LlmNext]_vars

\* C10: the provider is called at most max_retries times; a call that
\* raises or returns an empty response is followed by another call unless
\* it was the last allowed; the k-th wait is retry_delay * k and comes
\* before call k + 1; the step returns at the first successful call, after
\* which no call is made; after max_retries failed calls the step raises
\* with the error of the last call, without a wait after it.
C10_LlmRetries ==
    llm.op = "_handle_llm_step" =>
        LET n == Len(llm.calls)
            failed == {i \in 1 .. n : llm.calls[i] # "text"}
        IN  /\ n <= llm.max_retries
            /\ \A i \in 1 .. (n - 1) : i \in failed
            /\ \A k \in 1 .. Len(llm.sleeps) : llm.sleeps[k] = llm.retry_delay * k
            /\ llm.pc = "returned" <=> (n > 0 /\ n \notin failed)
            /\ llm.pc = "returned" => Len(llm.sleeps) = n - 1
            /\ llm.pc = "loop" =>
                  Len(llm.sleeps) =
                      IF n < llm.max_retries \/ n = 0 THEN n ELSE n - 1
            /\ llm.pc = "raised" =>
                  /\ n = llm.max_retries
                  /\ Len(llm.sleeps) = IF n = 0 THEN 0 ELSE n - 1
                  /\ n > 0 => llm.last_error = LlmError(llm.calls[n])

\* With the default max_retries the provider failed twice (one error, one
\* empty response) and then answered: the step returned after 3 calls and
\* a cumulative wait of retry_delay * (1 + 2).
C10_Witness ==
    /\ llm.op = "_handle_llm_step"
    /\ llm.max_retries = 3
    /\ llm.retry_delay = 2
    /\ llm.calls = <<"raise", "empty", "text">>
    /\ llm.pc = "returned"
    /\ SeqSum(llm.sleeps) = llm.retry_delay * (1 + 2)

====
